---- MODULE Spec2Model ----
EXTENDS Integers, Sequences, FiniteSets, TLC

\* Model of parside's attachment-group parsing (message/groups) and of its
\* dynamic JSON-like value type (data.rs).
\*
\* Bytes are integers 0..255.  Text-domain bytes are the ASCII codes of the
\* URL-safe Base64 alphabet; binary-domain bytes pack four sextets in three
\* bytes.

VARIABLES pc, group, items, cold_code, counter, bytes, tail, good, ret, d, inserted

vars == <<pc, group, items, cold_code, counter, bytes, tail, good, ret, d, inserted>>

\* ---------------------------------------------------------------- bounds

MaxItems == 2

MaxSeed == 1

\* ------------------------------------------------------- base64 / bytes

RECURSIVE Pow2(_)
Pow2(n) == IF n = 0 THEN 1 ELSE 2 * Pow2(n - 1)

RECURSIVE Flatten(_)
Flatten(ss) == IF ss = <<>> THEN <<>> ELSE Head(ss) \o Flatten(Tail(ss))

RECURSIVE SumSeq(_)
SumSeq(s) == IF s = <<>> THEN 0 ELSE Head(s) + SumSeq(Tail(s))

\* sextet (0..63) -> ASCII code of its URL-safe Base64 character
B64Char(s) ==
    IF s < 26 THEN 65 + s
    ELSE IF s < 52 THEN 97 + (s - 26)
    ELSE IF s < 62 THEN 48 + (s - 52)
    ELSE IF s = 62 THEN 45 ELSE 95

\* ASCII code -> sextet, -1 for a byte outside the alphabet
B64Index(c) ==
    IF c >= 65 /\ c <= 90 THEN c - 65
    ELSE IF c >= 97 /\ c <= 122 THEN c - 97 + 26
    ELSE IF c >= 48 /\ c <= 57 THEN c - 48 + 52
    ELSE IF c = 45 THEN 62
    ELSE IF c = 95 THEN 63 ELSE -1

SextetsToText(s) == [i \in 1..Len(s) |-> B64Char(s[i])]

TextToSextets(t) == [i \in 1..Len(t) |-> B64Index(t[i])]

ByteAt(b, i) == IF i >= 1 /\ i <= Len(b) THEN b[i] ELSE 0

\* the k-th sextet (k from 0) of a byte string, missing bytes read as zero
Nab(b, k) ==
    LET j == (6 * k) \div 8
        r == (6 * k) % 8
        v == ByteAt(b, j + 1) * 256 + ByteAt(b, j + 2)
    IN  (v \div Pow2(10 - r)) % 64

\* 3 bytes -> 4 sextets
BytesToSextets(b) == [k \in 1..((Len(b) * 4) \div 3) |-> Nab(b, k - 1)]

\* 4 sextets -> 3 bytes
SextetsToBytes(s) ==
    [n \in 1..((Len(s) * 3) \div 4) |->
        LET i == n - 1
            j == (8 * i) \div 6
            r == (8 * i) % 6
            v == s[j + 1] * 64 + (IF j + 2 <= Len(s) THEN s[j + 2] ELSE 0)
        IN  (v \div Pow2(4 - r)) % 256]

IsText(cold) == cold \in {"CtB64", "OpB64"}

IsBinary(cold) == cold = "CtOpB2"

ColdCodes == {"CtB64", "OpB64", "CtOpB2", "JSON"}

\* ------------------------------------------------ primitives (cesride)

\* the hard code's characters
CodeText ==
    ("A" :> <<65>>) @@ ("B" :> <<66>>) @@ ("D" :> <<68>>) @@ ("E" :> <<69>>)
    @@ ("F" :> <<70>>) @@ ("0A" :> <<48, 65>>)

\* hard size, soft size and full size (text characters) of each code
MatterSizes ==
    ("A" :> [hs |-> 1, ss |-> 0, fs |-> 44]) @@
    ("B" :> [hs |-> 1, ss |-> 0, fs |-> 44]) @@
    ("D" :> [hs |-> 1, ss |-> 0, fs |-> 44]) @@
    ("E" :> [hs |-> 1, ss |-> 0, fs |-> 44]) @@
    ("F" :> [hs |-> 1, ss |-> 0, fs |-> 44]) @@
    ("0A" :> [hs |-> 2, ss |-> 0, fs |-> 24])

IndexerSizes ==
    ("A" :> [hs |-> 1, ss |-> 1, fs |-> 88]) @@
    ("B" :> [hs |-> 1, ss |-> 1, fs |-> 88])

Kinds == {"prefixer", "seqner", "saider", "siger"}

Sizes(kind) == IF kind = "siger" THEN IndexerSizes ELSE MatterSizes

\* the codes each primitive type accepts
Codex(kind) ==
    CASE kind = "prefixer" -> {"B", "D", "E"}
      [] kind = "seqner"   -> {"0A"}
      [] kind = "saider"   -> {"E", "F"}
      [] kind = "siger"    -> {"A", "B"}

\* hard size announced by a code's first character, 0 when it announces none
HardSize(c) ==
    IF (c >= 65 /\ c <= 90) \/ (c >= 97 /\ c <= 122) THEN 1
    ELSE IF c = 48 THEN 2 ELSE 0

KnownCode(kind, txt) == \E k \in DOMAIN Sizes(kind) : CodeText[k] = txt

CodeOf(kind, txt) == CHOOSE k \in DOMAIN Sizes(kind) : CodeText[k] = txt

\* pad sextets that precede the raw material: (hs + ss) % 4
PadSize(sz) == (sz.hs + sz.ss) % 4

\* the lead pad bits live in the first sextet after the code
PadOk(sz, body) == body[sz.ss + 1] < Pow2(6 - 2 * PadSize(sz))

Primitive_full_size(kind, p) == Sizes(kind)[p.code].fs

Primitive_qb64b(kind, p) == CodeText[p.code] \o SextetsToText(p.body)

Primitive_qb64(kind, p) == Primitive_qb64b(kind, p)

Primitive_qb2(kind, p) ==
    SextetsToBytes(TextToSextets(CodeText[p.code]) \o p.body)

NoPrimitive == [code |-> "", body |-> <<>>]

Fail == [ok |-> FALSE, rest |-> <<>>, val |-> NoPrimitive]

\* Matter / Indexer construction from text bytes, then the slice past it
FromQb64b(kind, b) ==
    IF b = <<>> THEN Fail
    ELSE LET hs == HardSize(b[1]) IN
    IF hs = 0 \/ Len(b) < hs THEN Fail
    ELSE LET txt == SubSeq(b, 1, hs) IN
    IF ~KnownCode(kind, txt) THEN Fail
    ELSE LET code == CodeOf(kind, txt)
             sz   == Sizes(kind)[code] IN
    IF Len(b) < sz.fs THEN Fail
    ELSE LET body == TextToSextets(SubSeq(b, hs + 1, sz.fs)) IN
    IF \E i \in 1..Len(body) : body[i] = -1 THEN Fail
    ELSE IF ~PadOk(sz, body) THEN Fail
    ELSE IF code \notin Codex(kind) THEN Fail
    ELSE [ok |-> TRUE, rest |-> SubSeq(b, sz.fs + 1, Len(b)),
          val |-> [code |-> code, body |-> body]]

\* Matter / Indexer construction from binary bytes, then the slice past it
FromQb2(kind, b) ==
    IF b = <<>> THEN Fail
    ELSE LET hs == HardSize(B64Char(Nab(b, 0))) IN
    IF hs = 0 \/ Len(b) < (hs * 3 + 3) \div 4 THEN Fail
    ELSE LET txt == [k \in 1..hs |-> B64Char(Nab(b, k - 1))] IN
    IF ~KnownCode(kind, txt) THEN Fail
    ELSE LET code == CodeOf(kind, txt)
             sz   == Sizes(kind)[code]
             bfs  == (sz.fs \div 4) * 3 IN
    IF Len(b) < bfs THEN Fail
    ELSE LET sx   == BytesToSextets(SubSeq(b, 1, bfs))
             body == SubSeq(sx, hs + 1, sz.fs) IN
    IF ~PadOk(sz, body) THEN Fail
    ELSE IF code \notin Codex(kind) THEN Fail
    ELSE [ok |-> TRUE, rest |-> SubSeq(b, bfs + 1, Len(b)),
          val |-> [code |-> code, body |-> body]]

\* Parsers::<kind>_parser(cold_code): whether the factory yields a parser
ParserFor(cold) == IsText(cold) \/ IsBinary(cold)

\* the parser the factory yields, applied to a slice
PrimitiveParse(kind, cold, b) ==
    IF IsText(cold) THEN FromQb64b(kind, b) ELSE FromQb2(kind, b)

\* ------------------------------------------------- nom combinators

NoParse == [ok |-> FALSE, rest |-> <<>>, val |-> <<>>]

RECURSIVE tuple_loop(_, _, _, _)

\* one step of tuple: a primitive's parse result r ends the tuple with its
\* failure or hands its remainder to the parsers left
tuple_step(kinds, cold, r, acc) ==
    IF ~r.ok THEN NoParse
    ELSE tuple_loop(Tail(kinds), cold, r.rest, Append(acc, r.val))

\* the loop of tuple: the parsers left, the slice left, the outputs so far
tuple_loop(kinds, cold, b, acc) ==
    IF kinds = <<>> THEN [ok |-> TRUE, rest |-> b, val |-> acc]
    ELSE tuple_step(kinds, cold, PrimitiveParse(Head(kinds), cold, b), acc)

\* nom::sequence::tuple: the parsers of `kinds` one after another, each on
\* the slice the previous one left; the first failure fails the tuple
tuple(kinds, cold, b) == tuple_loop(kinds, cold, b, <<>>)

RECURSIVE count_loop(_, _, _, _, _)

\* one step of count: an item's parse result r ends the loop with its
\* failure or hands its remainder to the next repetition
count_step(kinds, cold, n, r, acc) ==
    IF ~r.ok THEN NoParse
    ELSE count_loop(kinds, cold, n - 1, r.rest, Append(acc, r.val))

\* the loop of count: the repetitions left, the slice left, the items so far
count_loop(kinds, cold, n, b, acc) ==
    IF n = 0 THEN [ok |-> TRUE, rest |-> b, val |-> acc]
    ELSE count_step(kinds, cold, n, tuple(kinds, cold, b), acc)

\* nom::multi::count: the item parser n times, each on the slice the
\* previous one left; the first failure fails the whole
count(kinds, cold, n, b) == count_loop(kinds, cold, n, b, <<>>)

\* ------------------------------------------------------------ groups

Groups == {"ControllerIdxSigs", "SealSourceTriples"}

\* Group::CODE
GroupCode(g) == IF g = "ControllerIdxSigs" THEN "-A" ELSE "-I"

Err == [ok |-> FALSE, rest |-> <<>>, value |-> <<>>]

\* the item parser of ControllerIdxSigs::from_stream_bytes
SigParsers == <<"siger">>

\* the triple's parsers with the first two exchanged
TripleParsersSwapped == <<"seqner", "prefixer", "saider">>

\* the item parser of SealSourceTriples::from_stream_bytes

TripleParsers == <<"prefixer", "seqner", "saider">>

\* (rest, body) of a successful count, the body mapped into ControllerIdxSig
ControllerIdxSigs_collect(r) ==
    IF ~r.ok THEN Err
    ELSE [ok |-> TRUE, rest |-> r.rest,
          value |-> [i \in 1..Len(r.val) |-> [siger |-> r.val[i][1]]]]

\* a parse that stops one item short of the count
ControllerIdxSigs_drop_last(b, ctr, cold) ==
    IF ~ParserFor(cold) THEN Err
    ELSE ControllerIdxSigs_collect(
             count(SigParsers, cold, IF ctr.count > 0 THEN ctr.count - 1 ELSE 0, b))

ControllerIdxSigs_from_stream_bytes(b, ctr, cold) ==
    IF ~ParserFor(cold) THEN Err
    ELSE ControllerIdxSigs_collect(count(SigParsers, cold, ctr.count, b))

RECURSIVE many_loop(_, _, _, _, _)

many_step(kinds, cold, n, b, r, acc) ==
    IF ~r.ok THEN [ok |-> TRUE, rest |-> b, val |-> acc]
    ELSE many_loop(kinds, cold, n - 1, r.rest, Append(acc, r.val))

\* a loop that stops at the first item that does not parse and keeps the
\* items read so far
many_loop(kinds, cold, n, b, acc) ==
    IF n = 0 THEN [ok |-> TRUE, rest |-> b, val |-> acc]
    ELSE many_step(kinds, cold, n, b, tuple(kinds, cold, b), acc)

\* (rest, body) of a successful count, the body mapped into SealSourceTriple
SealSourceTriples_collect(r) ==
    IF ~r.ok THEN Err
    ELSE [ok |-> TRUE, rest |-> r.rest,
          value |-> [i \in 1..Len(r.val) |->
                        [prefixer |-> r.val[i][1], seqner |-> r.val[i][2],
                         saider |-> r.val[i][3]]]]

\* a parse that returns the items read before the first failure
SealSourceTriples_lenient(b, ctr, cold) ==
    IF ~ParserFor(cold) THEN Err
    ELSE SealSourceTriples_collect(many_loop(TripleParsers, cold, ctr.count, b, <<>>))

SealSourceTriples_from_stream_bytes(b, ctr, cold) ==
    IF ~ParserFor(cold) THEN Err
    ELSE SealSourceTriples_collect(count(TripleParsers, cold, ctr.count, b))

from_stream_bytes(g, b, ctr, cold) ==
    IF g = "ControllerIdxSigs"
    THEN ControllerIdxSigs_from_stream_bytes(b, ctr, cold)
    ELSE SealSourceTriples_from_stream_bytes(b, ctr, cold)

\* ------------------------------------------------------- group items

Zeros(n) == [i \in 1..n |-> 0]

\* out[from..to].copy_from_slice(src), offsets counted from 0: the slice
\* must be in order and in range, and as long as src
CopyFromSlice(st, from, to, src) ==
    IF st.status # "Ok" THEN st
    ELSE IF from > to \/ to > Len(st.out) \/ to - from # Len(src)
    THEN [status |-> "Panic", out |-> <<>>]
    ELSE [status |-> "Ok",
          out |-> [i \in 1..Len(st.out) |->
                      IF i > from /\ i <= to THEN src[i - from] ELSE st.out[i]]]

\* a full_size that leaves the last primitive out
SealSourceTriple_full_size_short(t) ==
    Primitive_full_size("prefixer", t.prefixer)
    + Primitive_full_size("seqner", t.seqner)

SealSourceTriple_full_size(t) ==
    Primitive_full_size("prefixer", t.prefixer)
    + Primitive_full_size("seqner", t.seqner)
    + Primitive_full_size("saider", t.saider)

SealSourceTriple_qb64(t) ==
    [status |-> "Ok",
     out |-> Primitive_qb64("prefixer", t.prefixer)
             \o Primitive_qb64("seqner", t.seqner)
             \o Primitive_qb64("saider", t.saider)]

SealSourceTriple_qb64b(t) ==
    LET out0 == [status |-> "Ok", out |-> Zeros(SealSourceTriple_full_size(t))]
        off0 == 0
        len1 == Primitive_full_size("prefixer", t.prefixer)
        out1 == CopyFromSlice(out0, off0, len1, Primitive_qb64b("prefixer", t.prefixer))
        off1 == off0 + len1
        len2 == Primitive_full_size("seqner", t.seqner)
        out2 == CopyFromSlice(out1, off1, len2, Primitive_qb64b("seqner", t.seqner))
        off2 == off1 + len2
        len3 == Primitive_full_size("saider", t.saider)
    IN  CopyFromSlice(out2, off2, len3, Primitive_qb64b("saider", t.saider))

SealSourceTriple_qb2(t) ==
    LET out0 == [status |-> "Ok",
                 out |-> Zeros((SealSourceTriple_full_size(t) \div 4) * 3)]
        off0 == 0
        len1 == (Primitive_full_size("prefixer", t.prefixer) \div 4) * 3
        out1 == CopyFromSlice(out0, off0, len1, Primitive_qb2("prefixer", t.prefixer))
        off1 == off0 + len1
        len2 == (Primitive_full_size("seqner", t.seqner) \div 4) * 3
        out2 == CopyFromSlice(out1, off1, len2, Primitive_qb2("seqner", t.seqner))
        off2 == off1 + len2
        len3 == (Primitive_full_size("saider", t.saider) \div 4) * 3
    IN  CopyFromSlice(out2, off2, len3, Primitive_qb2("saider", t.saider))

ControllerIdxSig_qb64(t) ==
    [status |-> "Ok", out |-> Primitive_qb64("siger", t.siger)]

ControllerIdxSig_qb64b(t) ==
    [status |-> "Ok", out |-> Primitive_qb64b("siger", t.siger)]

ControllerIdxSig_qb2(t) ==
    [status |-> "Ok", out |-> Primitive_qb2("siger", t.siger)]

\* GroupItem::full_size of the one-primitive item: the primitive's text size
ControllerIdxSig_full_size(t) == Primitive_full_size("siger", t.siger)

Item_qb64(g, t) ==
    IF g = "ControllerIdxSigs" THEN ControllerIdxSig_qb64(t)
    ELSE SealSourceTriple_qb64(t)

Item_qb64b(g, t) ==
    IF g = "ControllerIdxSigs" THEN ControllerIdxSig_qb64b(t)
    ELSE SealSourceTriple_qb64b(t)

Item_qb2(g, t) ==
    IF g = "ControllerIdxSigs" THEN ControllerIdxSig_qb2(t)
    ELSE SealSourceTriple_qb2(t)

Item_full_size(g, t) ==
    IF g = "ControllerIdxSigs" THEN ControllerIdxSig_full_size(t)
    ELSE SealSourceTriple_full_size(t)

\* ------------------------------------------------------------ Counter

CounterText == ("-A" :> <<45, 65>>) @@ ("-I" :> <<45, 73>>)

\* width of the framing header in text characters
CounterFullSize == 4

Counter_qb64b(ctr) ==
    CounterText[ctr.code]
    \o SextetsToText(<<(ctr.count \div 64) % 64, ctr.count % 64>>)

Counter_qb2(ctr) == SextetsToBytes(TextToSextets(Counter_qb64b(ctr)))

HeaderWidth(cold) ==
    IF IsBinary(cold) THEN (CounterFullSize \div 4) * 3 ELSE CounterFullSize

NoCounter == [ok |-> FALSE, rest |-> <<>>, val |-> [code |-> "", count |-> 0]]

\* Counter parsed from the head of a stream in the given domain
Counter_parse(cold, b) ==
    IF ~ParserFor(cold) \/ Len(b) < HeaderWidth(cold) THEN NoCounter
    ELSE LET w  == HeaderWidth(cold)
             sx == IF IsText(cold) THEN TextToSextets(SubSeq(b, 1, w))
                   ELSE BytesToSextets(SubSeq(b, 1, w))
             tx == <<B64Char(sx[1] % 64), B64Char(sx[2] % 64)>> IN
         IF (\E i \in 1..4 : sx[i] = -1)
            \/ ~(\E c \in DOMAIN CounterText : CounterText[c] = tx)
         THEN NoCounter
         ELSE [ok |-> TRUE, rest |-> SubSeq(b, w + 1, Len(b)),
               val |-> [code |-> CHOOSE c \in DOMAIN CounterText : CounterText[c] = tx,
                        count |-> sx[3] * 64 + sx[4]]]

GroupOfCode(code) == IF code = "-A" THEN "ControllerIdxSigs" ELSE "SealSourceTriples"

\* the group a parsed Counter announces, read from the slice after it
parse_counted(c, cold) ==
    IF ~c.ok THEN Err
    ELSE from_stream_bytes(GroupOfCode(c.val.code), c.rest, c.val, cold)

\* the whole framed group: the Counter, then the group its code names
parse_group(b, cold) == parse_counted(Counter_parse(cold, b), cold)

\* ------------------------------------------------ constructed inputs

Body(sz, seed) ==
    [i \in 1..(sz.fs - sz.hs) |->
        IF i = sz.ss + 1 THEN seed % Pow2(6 - 2 * PadSize(sz))
        ELSE (5 * seed + 7 * i) % 64]

MakePrimitive(kind, code, seed) ==
    [code |-> code, body |-> Body(Sizes(kind)[code], seed)]

MakeItem(g, variant, seed) ==
    IF g = "ControllerIdxSigs"
    THEN [siger |-> MakePrimitive("siger", IF variant = 0 THEN "A" ELSE "B", seed)]
    ELSE [prefixer |-> MakePrimitive("prefixer", IF variant = 0 THEN "D" ELSE "E", seed),
          seqner   |-> MakePrimitive("seqner", "0A", seed + 1),
          saider   |-> MakePrimitive("saider", IF variant = 0 THEN "E" ELSE "F", seed + 2)]

MakeItems(g, n, variant, seed) ==
    [i \in 1..n |-> MakeItem(g, (variant + i) % 2, seed + i)]

ItemKinds(g) == IF g = "ControllerIdxSigs" THEN SigParsers ELSE <<"prefixer", "seqner", "saider">>

\* the primitives of an item, in wire order
Fields(g, t) ==
    IF g = "ControllerIdxSigs" THEN <<t.siger>>
    ELSE <<t.prefixer, t.seqner, t.saider>>

Encode(kind, p, cold) ==
    IF IsBinary(cold) THEN Primitive_qb2(kind, p) ELSE Primitive_qb64b(kind, p)

\* wire form of an item: its primitives' encodings, one after another
Wire(g, t, cold) ==
    Flatten([m \in 1..Len(ItemKinds(g)) |-> Encode(ItemKinds(g)[m], Fields(g, t)[m], cold)])

WireAll(g, its, cold) == Flatten([i \in 1..Len(its) |-> Wire(g, its[i], cold)])

\* ways a primitive on the wire can be broken
DamageKinds(g, cold) ==
    {"trunc", "code", "pad"}
    \cup (IF IsBinary(cold) THEN {} ELSE {"char"})
    \cup (IF g = "SealSourceTriples" THEN {"kind"} ELSE {})

WrongCode(kind) == IF kind = "prefixer" THEN "A" ELSE "D"

Broken(kind, p, cold, dk) ==
    LET sz  == Sizes(kind)[p.code]
        enc == Encode(kind, p, cold)
    IN  CASE dk = "trunc" -> SubSeq(enc, 1, Len(enc) - 1)
          [] dk = "code"  -> [enc EXCEPT ![1] = IF IsBinary(cold) THEN 255 ELSE 95]
          [] dk = "char"  -> [enc EXCEPT ![Len(enc)] = 35]
          [] dk = "pad"   -> Encode(kind, [p EXCEPT !.body[sz.ss + 1] = 63], cold)
          [] dk = "kind"  -> Encode(kind, MakePrimitive(kind, WrongCode(kind), 0), cold)

\* the stream in which field m of item j is broken; a truncated stream ends there
BrokenStream(g, its, cold, dk, j, m) ==
    LET ks == ItemKinds(g)
        fs == Fields(g, its[j])
        before == WireAll(g, SubSeq(its, 1, j - 1), cold)
                  \o Flatten([k \in 1..(m - 1) |-> Encode(ks[k], fs[k], cold)])
        after  == Flatten([k \in 1..(Len(ks) - m) |-> Encode(ks[m + k], fs[m + k], cold)])
                  \o WireAll(g, SubSeq(its, j + 1, Len(its)), cold)
    IN  before \o Broken(ks[m], fs[m], cold, dk)
        \o (IF dk = "trunc" THEN <<>> ELSE after)

\* bytes that may follow a group: nothing, the next group's header, or the
\* beginning of a further primitive
Tails(cold) ==
    IF IsBinary(cold)
    THEN {<<>>, Counter_qb2([code |-> "-A", count |-> 1]), SextetsToBytes(<<3, 0, 0, 0>>)}
    ELSE {<<>>, Counter_qb64b([code |-> "-A", count |-> 1]), <<68, 65>>}

\* ----------------------------------------------- numbers: u64, i64
\* A natural number of any size (the magnitude of a u64 or an i64, the
\* significand and the powers of an f64) is its digits in base Limb, the
\* least significant first and the last not 0; 0 is <<>>.
Limb == 10000

\* the natural number n
RECURSIVE Big(_)
Big(n) == IF n = 0 THEN <<>> ELSE <<n % Limb>> \o Big(n \div Limb)

\* the first magnitudes beyond an i64, 2^63, and beyond a u64, 2^64
Beyond == [i64 |-> <<5808, 5477, 368, 3372, 922>>,
           u64 |-> <<1616, 955, 737, 6744, 1844>>]

\* an integer: its sign and its magnitude
I64(n) == [neg |-> n < 0, mag |-> Big(IF n < 0 THEN -n ELSE n)]

\* the natural number whose digits in base Limb are ds, each of them 0 or
\* more and of any size: three times every digit is reduced and takes what
\* the digit below it was above Limb, which leaves digits of at most Limb;
\* then a digit takes 1 more when the nearest digit below it that is not
\* Limb - 1 is Limb
Carried(ds) ==
    LET Pass(r) ==
            <<>> \o [i \in 1..(Len(r) + 1) |->
                       (IF i <= Len(r) THEN r[i] % Limb ELSE 0)
                       + (IF i > 1 THEN r[i - 1] \div Limb ELSE 0)]
        Last(S) == CHOOSE j \in S : \A k \in S : k <= j
        Carry(u, i) ==
            IF \E j \in 1..(i - 1) : u[j] # Limb - 1
            THEN IF u[Last({j \in 1..(i - 1) : u[j] # Limb - 1})] = Limb THEN 1 ELSE 0
            ELSE 0
        Resolve(u) ==
            IF \A i \in 1..Len(u) : u[i] < Limb THEN u
            ELSE <<>> \o [i \in 1..Len(u) |-> (u[i] + Carry(u, i)) % Limb]
        Trim(x) == SubSeq(x, 1, Last({0} \cup {i \in 1..Len(x) : x[i] # 0}))
    IN  Trim(Resolve(Pass(Pass(Pass(ds)))))

\* The operators on these numbers apply one another by name, through Arith.
RECURSIVE Arith(_, _)

\* a + t * b for 0 <= t < Limb
PlusTimes(a, t, b) ==
    LET Digit(x, i) == IF i <= Len(x) THEN x[i] ELSE 0
        n == IF Len(a) > Len(b) THEN Len(a) ELSE Len(b)
    IN  IF a = <<>> /\ b = <<>> THEN <<>>
        ELSE Carried([i \in 1..n |-> Digit(a, i) + t * Digit(b, i)])

\* -1, 0 or 1 as a is less than, equal to or greater than b
BigCmp(a, b) ==
    IF Len(a) # Len(b) THEN (IF Len(a) < Len(b) THEN -1 ELSE 1)
    ELSE IF a = b THEN 0
    ELSE LET i == CHOOSE i \in 1..Len(a) :
                      a[i] # b[i] /\ \A j \in (i + 1)..Len(a) : a[j] = b[j]
         IN  IF a[i] < b[i] THEN -1 ELSE 1

\* a - b for a >= b: a digit lends 1 when the nearest digit below it where
\* a and b differ is less in a
BigSub(a, b) ==
    LET Digit(x, i) == IF i <= Len(x) THEN x[i] ELSE 0
        Last(S) == CHOOSE j \in S : \A k \in S : k <= j
        Below(i) == Last({0} \cup {j \in 1..(i - 1) : a[j] # Digit(b, j)})
        Lent(j) == IF j > 0 /\ a[j] < Digit(b, j) THEN 1 ELSE 0
        Trim(x) == SubSeq(x, 1, Last({0} \cup {i \in 1..Len(x) : x[i] # 0}))
    IN  Trim([i \in 1..Len(a) |-> (a[i] - Digit(b, i) - Lent(Below(i))) % Limb])

\* a * b: the digit at place k is the sum of the products of the digits at
\* places i and k - i, what a product is above Limb going one place up
BigMul(a, b) ==
    LET RECURSIVE Sum(_, _, _)
        Sum(f, lo, hi) ==
            IF lo > hi THEN 0
            ELSE IF lo = hi THEN f[lo]
            ELSE Sum(f, lo, (lo + hi) \div 2) + Sum(f, (lo + hi) \div 2 + 1, hi)
        Product(i, j) == IF j >= 1 /\ j <= Len(b) THEN a[i] * b[j] ELSE 0
        Column(k) == Sum([i \in 1..Len(a) |-> (Product(i, k + 1 - i) % Limb)
                                              + (Product(i, k - i) \div Limb)],
                         1, Len(a))
    IN  IF a = <<>> \/ b = <<>> THEN <<>>
        ELSE Carried([k \in 1..(Len(a) + Len(b)) |-> Column(k)])

\* base^n for a base of at most 10
RECURSIVE BigPow(_, _)
BigPow(base, n) ==
    LET \* x * x * t
        SquareTimes(x, t) ==
            IF x = <<>> THEN <<>>
            ELSE Arith("PlusTimes", <<<<>>, t, Arith("BigMul", <<x, x>>)>>)
    IN  IF n <= 9 THEN Big(base^n)
        ELSE SquareTimes(BigPow(base, n \div 2), IF n % 2 = 1 THEN base ELSE 1)

\* quotient q and remainder r of a by b > 0: the quotient is that of f * a
\* by f * b for an f that makes the first digit of f * b at least half of
\* Limb, which leaves the division of the first two digits of a remainder
\* by the first digit of f * b at most 2 above a digit of the quotient
BigDivMod(a, b) ==
    LET Digit(x, i) == IF i <= Len(x) THEN x[i] ELSE 0
        Estimate(r, v) ==
            IF (Digit(r, Len(v)) + Limb * Digit(r, Len(v) + 1)) \div v[Len(v)] >= Limb
            THEN Limb - 1
            ELSE (Digit(r, Len(v)) + Limb * Digit(r, Len(v) + 1)) \div v[Len(v)]
        \* the greatest n with n * v <= r, given the estimate
        Greatest(r, v, est) ==
            CHOOSE n \in {est - 2, est - 1, est} :
                /\ n >= 0
                /\ BigCmp(Arith("PlusTimes", <<<<>>, n, v>>), r) <= 0
                /\ n = est \/ BigCmp(Arith("PlusTimes", <<<<>>, n + 1, v>>), r) > 0
        With(h, v, n) ==
            [q |-> IF h.q = <<>> /\ n = 0 THEN <<>> ELSE <<n>> \o h.q,
             r |-> BigSub(h.r, Arith("PlusTimes", <<<<>>, n, v>>))]
        \* of u by v, given those of u by Limb * v
        Lower(h, v) ==
            IF h.r = <<>> THEN [q |-> IF h.q = <<>> THEN <<>> ELSE <<0>> \o h.q, r |-> <<>>]
            ELSE With(h, v, Greatest(h.r, v, Estimate(h.r, v)))
        RECURSIVE Normal(_, _)
        Normal(u, v) ==
            IF BigCmp(u, v) < 0 THEN [q |-> <<>>, r |-> u]
            ELSE Lower(Normal(u, <<0>> \o v), v)
        Of(q) == [q |-> q, r |-> BigSub(a, Arith("BigMul", <<q, b>>))]
        Scaled(f) ==
            Normal(Arith("PlusTimes", <<<<>>, f, a>>), Arith("PlusTimes", <<<<>>, f, b>>))
    IN  Of(Scaled(Limb \div (b[Len(b)] + 1)).q)

\* the natural number of the decimal digits ds (characters): four of them
\* to a digit in base Limb
BigOfDigits(ds) ==
    LET Digit(p) == IF p >= 1 THEN ds[p] - 48 ELSE 0
        Four(p) == Digit(p) + 10 * Digit(p - 1) + 100 * Digit(p - 2) + 1000 * Digit(p - 3)
    IN  Carried([i \in 1..((Len(ds) + 3) \div 4) |-> Four(Len(ds) - 4 * (i - 1))])

\* ------------------------------------------------------ data: Value

\* Value: Null | Boolean(bool) | Number(Number) | String | Array | Object.
\* A String is its characters' codes, an Array a sequence of Values, an
\* Object (IndexMap) a sequence of <<key, value>> entries with distinct keys.
\* An i64 is its sign and magnitude.  An f64 is the decimal it prints as:
\* m * 10^e with m a natural number that is no multiple of 10 (m = 0, e = 0
\* for zero), or not a number.
VNull == [t |-> "Null"]

VBoolean(b) == [t |-> "Boolean", b |-> b]

Finite(neg, m, e) == [cls |-> "finite", neg |-> neg, m |-> m, e |-> e]

NaN == [cls |-> "nan", neg |-> FALSE, m |-> <<>>, e |-> 0]

FZero == Finite(FALSE, <<>>, 0)

\* Number::from(f64)
NumberFromF64(f) == [f |-> f, i |-> I64(0), float |-> TRUE]

\* Number::from(i64)
NumberFromI64(i) == [f |-> FZero, i |-> i, float |-> FALSE]

VNumber(n) == [t |-> "Number", n |-> n]

VString(s) == [t |-> "String", s |-> s]

VArray(a) == [t |-> "Array", a |-> a]

VObject(o) == [t |-> "Object", o |-> o]

\* IndexMap::get_index_of: position (from 1) of a key, 0 when absent
IndexOf(o, k) ==
    IF \E i \in 1..Len(o) : o[i][1] = k
    THEN CHOOSE i \in 1..Len(o) : o[i][1] = k /\ \A j \in 1..(i - 1) : o[j][1] # k
    ELSE 0

\* an insert that puts a new key in front of the others
Object_insert_front(o, k, v) ==
    IF IndexOf(o, k) = 0 THEN <<<<k, v>>>> \o o
    ELSE [o EXCEPT ![IndexOf(o, k)] = <<k, v>>]

\* IndexMap::insert: a present key keeps its place and takes the value, a
\* new key goes to the end
Object_insert(o, k, v) ==
    IF IndexOf(o, k) = 0 THEN Append(o, <<k, v>>)
    ELSE [o EXCEPT ![IndexOf(o, k)] = <<k, v>>]

Panic == [status |-> "Panic", val |-> VNull]

\* Index<usize> for Value
Index_usize(v, i) ==
    CASE v.t = "Array"  -> IF i < Len(v.a) THEN [status |-> "Ok", val |-> v.a[i + 1]]
                           ELSE Panic
      [] v.t = "Object" -> IF i < Len(v.o) THEN [status |-> "Ok", val |-> v.o[i + 1][2]]
                           ELSE Panic
      [] OTHER          -> Panic

\* Index<&str> for Value
Index_str(v, k) ==
    CASE v.t = "Object" -> IF IndexOf(v.o, k) # 0
                           THEN [status |-> "Ok", val |-> v.o[IndexOf(v.o, k)][2]]
                           ELSE Panic
      [] OTHER          -> Panic

\* the entries of o without the one at position p (from 1)
Object_without(o, p) == SubSeq(o, 1, p - 1) \o SubSeq(o, p + 1, Len(o))

\* an assignment by key that takes the entry out and puts it back at the end
Index_mut_str_reinsert(v, k, new) ==
    CASE v.t = "Object" -> IF IndexOf(v.o, k) # 0
                           THEN [status |-> "Ok",
                                 val |-> VObject(Append(Object_without(v.o, IndexOf(v.o, k)),
                                                        <<k, new>>))]
                           ELSE [status |-> "Panic", val |-> v]
      [] OTHER          -> [status |-> "Panic", val |-> v]

\* IndexMut<usize> for Value, then the store through the reference:
\* v[i] = new.  The value v is left as it was when the index panics.
Index_mut_usize(v, i, new) ==
    CASE v.t = "Array"  -> IF i < Len(v.a)
                           THEN [status |-> "Ok",
                                 val |-> VArray([v.a EXCEPT ![i + 1] = new])]
                           ELSE [status |-> "Panic", val |-> v]
      [] v.t = "Object" -> IF i < Len(v.o)
                           THEN [status |-> "Ok",
                                 val |-> VObject([v.o EXCEPT ![i + 1][2] = new])]
                           ELSE [status |-> "Panic", val |-> v]
      [] OTHER          -> [status |-> "Panic", val |-> v]

\* IndexMut<&str> for Value, then the store through the reference:
\* v[k] = new.  The value v is left as it was when the index panics.
Index_mut_str(v, k, new) ==
    CASE v.t = "Object" -> IF IndexOf(v.o, k) # 0
                           THEN [status |-> "Ok",
                                 val |-> VObject([v.o EXCEPT ![IndexOf(v.o, k)][2] = new])]
                           ELSE [status |-> "Panic", val |-> v]
      [] OTHER          -> [status |-> "Panic", val |-> v]

\* ------------------------------------------------------ data: to_json

RECURSIVE Join(_, _)
Join(ss, sep) ==
    IF ss = <<>> THEN <<>>
    ELSE IF Len(ss) = 1 THEN ss[1]
    ELSE ss[1] \o sep \o Join(Tail(ss), sep)

RECURSIVE DecText(_)
DecText(n) ==
    IF n < 10 THEN <<48 + n>> ELSE DecText(n \div 10) \o <<48 + (n % 10)>>

\* a natural number in decimal: its first digit in base Limb as it is, the
\* others as four characters each
BigText(a) ==
    LET Four(n) == <<48 + (n \div 1000), 48 + ((n \div 100) % 10),
                     48 + ((n \div 10) % 10), 48 + (n % 10)>>
    IN  IF a = <<>> THEN <<48>>
        ELSE DecText(a[Len(a)]) \o Flatten([i \in 1..(Len(a) - 1) |-> Four(a[Len(a) - i])])

\* an integer in decimal
IntText(i) == IF i.neg THEN <<45>> \o BigText(i.mag) ELSE BigText(i.mag)

\* an f64 as serde_json writes it: plain decimals with a fraction part for
\* 1e-5 <= |x| < 1e16, scientific otherwise (1e+16, 1.5e-7), with no point
\* when the mantissa is a single digit
FloatText(f) ==
    LET sign == IF f.neg THEN <<45>> ELSE <<>>
        Repeat(c, n) == [i \in 1..n |-> c]
        \* the exponent of scientific notation: always with its sign
        ExponentText(x) == IF x < 0 THEN <<45>> \o DecText(-x) ELSE <<43>> \o DecText(x)
        \* the digits ds of the mantissa with the point after the first kk
        Laid(ds, k, kk) ==
            IF 0 <= k /\ kk <= 16 THEN sign \o ds \o Repeat(48, k) \o <<46, 48>>
            ELSE IF 0 < kk /\ kk <= 16
                 THEN sign \o SubSeq(ds, 1, kk) \o <<46>> \o SubSeq(ds, kk + 1, Len(ds))
            ELSE IF -5 < kk /\ kk <= 0 THEN sign \o <<48, 46>> \o Repeat(48, -kk) \o ds
            ELSE IF Len(ds) = 1 THEN sign \o ds \o <<101>> \o ExponentText(kk - 1)
            ELSE sign \o <<ds[1], 46>> \o SubSeq(ds, 2, Len(ds)) \o <<101>>
                 \o ExponentText(kk - 1)
        Digits(ds) == Laid(ds, f.e, Len(ds) + f.e)
    IN  IF f.m = <<>> THEN sign \o <<48, 46, 48>> ELSE Digits(BigText(f.m))

\* one character inside a JSON string
EscapeChar(c) ==
    LET HexDigit(n) == IF n < 10 THEN 48 + n ELSE 97 + (n - 10) IN
    IF c = 34 THEN <<92, 34>>
    ELSE IF c = 92 THEN <<92, 92>>
    ELSE IF c = 8 THEN <<92, 98>>
    ELSE IF c = 9 THEN <<92, 116>>
    ELSE IF c = 10 THEN <<92, 110>>
    ELSE IF c = 12 THEN <<92, 102>>
    ELSE IF c = 13 THEN <<92, 114>>
    ELSE IF c < 32 THEN <<92, 117, 48, 48, HexDigit(c \div 16), HexDigit(c % 16)>>
    ELSE <<c>>

\* json!(s).to_string()
StringText(s) == <<34>> \o Flatten([i \in 1..Len(s) |-> EscapeChar(s[i])]) \o <<34>>

RECURSIVE to_json(_)
to_json(v) ==
    CASE v.t = "Null"    -> <<110, 117, 108, 108>>
      [] v.t = "Boolean" -> IF v.b THEN <<116, 114, 117, 101>>
                            ELSE <<102, 97, 108, 115, 101>>
      [] v.t = "Number"  -> \* a float that is not finite becomes null
                            IF ~v.n.float THEN IntText(v.n.i)
                            ELSE IF v.n.f.cls = "finite" THEN FloatText(v.n.f)
                            ELSE <<110, 117, 108, 108>>
      [] v.t = "String"  -> StringText(v.s)
      [] v.t = "Array"   ->
            <<91>> \o Join([i \in 1..Len(v.a) |-> to_json(v.a[i])], <<44>>) \o <<93>>
      [] v.t = "Object"  ->
            <<123>>
            \o Join([i \in 1..Len(v.o) |->
                        StringText(v.o[i][1]) \o <<58>> \o to_json(v.o[i][2])], <<44>>)
            \o <<125>>

\* ------------------------------------------- serde_json: from_str

\* serde_json::Value, with Number one of PosInt, NegInt, Float and Map an
\* order-preserving map
JNull == [t |-> "Null"]

JNumber(k, i, f) == [t |-> "Number", n |-> [k |-> k, i |-> i, f |-> f]]

NoJson == [ok |-> FALSE, v |-> JNull, i |-> 0]

At(s, i) == IF i >= 1 /\ i <= Len(s) THEN s[i] ELSE -1

IsDigit(c) == c >= 48 /\ c <= 57

RECURSIVE SkipWs(_, _)
SkipWs(s, i) == IF At(s, i) \in {32, 9, 10, 13} THEN SkipWs(s, i + 1) ELSE i

StripLeadingZeros(ds) ==
    IF \A i \in 1..Len(ds) : ds[i] = 48 THEN <<>>
    ELSE SubSeq(ds, CHOOSE i \in 1..Len(ds) :
                        ds[i] # 48 /\ \A j \in 1..(i - 1) : ds[j] = 48, Len(ds))

\* the f64 format: a finite value is k * 2^q with k < 2^p and
\* emin <= q <= emax; pow10 is the last index of serde_json's table POW10
F64 == [p |-> 53, emin |-> -1074, emax |-> 971, pow10 |-> 308]

\* the greatest n with base^n <= a / b, for a > 0, b > 0 and base 2 or 10:
\* sought between the bounds that the numbers of digits of a and b give
LogFloor(base, a, b) ==
    LET \* 1000 times the logarithm of Limb to the base, rounded up
        per == IF base = 2 THEN 13288 ELSE 4000
        \* base^n <= a / b
        Within(n) ==
            IF n >= 0
            THEN BigCmp(Arith("BigMul", <<Arith("BigPow", <<base, n>>), b>>), a) <= 0
            ELSE BigCmp(b, Arith("BigMul", <<Arith("BigPow", <<base, -n>>), a>>)) <= 0
        RECURSIVE Greatest(_, _)
        Greatest(lo, hi) ==
            IF lo = hi THEN lo
            ELSE IF Within((lo + hi + 1) \div 2) THEN Greatest((lo + hi + 1) \div 2, hi)
            ELSE Greatest(lo, (lo + hi + 1) \div 2 - 1)
    IN  Greatest(((Len(a) - Len(b) - 1) * per) \div 1000 - 1,
                 ((Len(a) - Len(b) + 1) * per) \div 1000 + 1)

\* the f64 nearest to a / b, the one of even k of two equally near:
\* [k, q] for k * 2^q, with q = emin for zero and the subnormal values and
\* 2^(p-1) <= k otherwise, or infinity past the greatest finite value
RoundToF64(a, b) ==
    LET \* k, or k + 1 when the remainder is on that side of one half, or at
        \* one half with k odd
        Up(k, side) ==
            IF side > 0 \/ (side = 0 /\ k # <<>> /\ k[1] % 2 = 1)
            THEN Arith("PlusTimes", <<k, 1, <<1>>>>) ELSE k
        \* the integer nearest to c / n, the even one of two equally near,
        \* given quotient and remainder
        Nearest(dm, n) == Up(dm.q, BigCmp(Arith("PlusTimes", <<<<>>, 2, dm.r>>), n))
        RoundHalfEven(c, n) == Nearest(Arith("BigDivMod", <<c, n>>), n)
        Of(k, q) ==
            IF k = Arith("BigPow", <<2, F64.p>>) /\ q + 1 <= F64.emax
            THEN [inf |-> FALSE, k |-> Arith("BigPow", <<2, F64.p - 1>>), q |-> q + 1]
            ELSE IF k = Arith("BigPow", <<2, F64.p>>) \/ q > F64.emax
            THEN [inf |-> TRUE, k |-> <<>>, q |-> 0]
            ELSE [inf |-> FALSE, k |-> k, q |-> q]
        RoundAt(q) ==
            Of(RoundHalfEven(IF q >= 0 THEN a
                             ELSE Arith("BigMul", <<a, Arith("BigPow", <<2, -q>>)>>),
                             IF q >= 0 THEN Arith("BigMul", <<b, Arith("BigPow", <<2, q>>)>>)
                             ELSE b),
               q)
        AtLeast(q) == IF q < F64.emin THEN F64.emin ELSE q
    IN  IF a = <<>> THEN [inf |-> FALSE, k |-> <<>>, q |-> F64.emin]
        ELSE RoundAt(AtLeast(Arith("LogFloor", <<2, a, b>>) - (F64.p - 1)))

\* the decimal m * 10^e (m no multiple of 10) an f64 x > 0 prints as: of
\* the decimals that read back as x one of the fewest digits, of these the
\* nearest to x, of two equally near the even one
ShortestDecimal(x) ==
    LET \* for x = vn / vd
        Of(vn, vd) ==
            LET \* c * 10^t reads back as x
                Gives(c, t) ==
                    /\ c # <<>>
                    /\ x = Arith("RoundToF64",
                                 <<IF t >= 0 THEN Arith("BigMul", <<c, Arith("BigPow", <<10, t>>)>>)
                                   ELSE c,
                                   IF t >= 0 THEN <<1>> ELSE Arith("BigPow", <<10, -t>>)>>)
                \* x / 10^t, rounded down
                Lo(t) ==
                    Arith("BigDivMod",
                          <<IF t >= 0 THEN vn
                            ELSE Arith("BigMul", <<vn, Arith("BigPow", <<10, -t>>)>>),
                            IF t >= 0 THEN Arith("BigMul", <<vd, Arith("BigPow", <<10, t>>)>>)
                            ELSE vd>>).q
                \* the sign of x - (lo + 1/2) * 10^t
                Side(lo, t) ==
                    BigCmp(Arith("PlusTimes",
                                 <<<<>>, 2,
                                   IF t >= 0 THEN vn
                                   ELSE Arith("BigMul", <<vn, Arith("BigPow", <<10, -t>>)>>)>>),
                           Arith("BigMul",
                                 <<Arith("PlusTimes", <<<<1>>, 2, lo>>),
                                   IF t >= 0
                                   THEN Arith("BigMul", <<vd, Arith("BigPow", <<10, t>>)>>)
                                   ELSE vd>>))
                \* of lo and lo + 1 the one that prints x, given those of
                \* them that read back as x; 0 when neither does
                Nearer(lo, giving, side) ==
                    IF giving = {lo, Arith("PlusTimes", <<lo, 1, <<1>>>>)}
                    THEN IF side < 0 \/ (side = 0 /\ (lo = <<>> \/ lo[1] % 2 = 0)) THEN lo
                         ELSE Arith("PlusTimes", <<lo, 1, <<1>>>>)
                    ELSE IF giving = {} THEN <<>>
                    ELSE CHOOSE c \in giving : TRUE
                \* the multiple of 10^t that prints x, 0 when there is none
                Among(lo, t) ==
                    Nearer(lo, {c \in {lo, Arith("PlusTimes", <<lo, 1, <<1>>>>)} : Gives(c, t)},
                           Side(lo, t))
                \* the decimal of n digits that prints x, for 10^E the
                \* place of the first digit of x
                Digits(E, n) == [m |-> Among(Lo(E - n + 1), E - n + 1), e |-> E - n + 1]
                RECURSIVE Fewest(_, _, _)
                \* the one of the least n in lo..hi for which there is one,
                \* given the one of the n half way
                Narrowed(E, lo, hi, dec) ==
                    IF lo = hi THEN dec
                    ELSE IF dec.m # <<>> THEN Fewest(E, lo, (lo + hi) \div 2)
                    ELSE Fewest(E, (lo + hi) \div 2 + 1, hi)
                Fewest(E, lo, hi) == Narrowed(E, lo, hi, Digits(E, (lo + hi) \div 2))
                RECURSIVE Strip(_)
                Strip(dec) ==
                    IF dec.m # <<>> /\ dec.m[1] % 10 = 0
                    THEN Strip([m |-> Arith("BigDivMod", <<dec.m, <<10>>>>).q, e |-> dec.e + 1])
                    ELSE dec
            IN  Strip(Fewest(Arith("LogFloor", <<10, vn, vd>>), 1, 17))
    IN  Of(IF x.q >= 0 THEN Arith("BigMul", <<x.k, Arith("BigPow", <<2, x.q>>)>>) ELSE x.k,
           IF x.q >= 0 THEN <<1>> ELSE Arith("BigPow", <<2, -x.q>>))

\* Deserializer::f64_from_parts after `significand as f64`: the f64 f times
\* 10^exponent by one multiplication or division by an entry of POW10, after
\* divisions by the last entry while the exponent is beyond the table;
\* infinity stands for the error `number out of range`
RECURSIVE f64_from_parts(_, _)
f64_from_parts(f, exponent) ==
    LET Num(x) == IF x.q >= 0 THEN Arith("BigMul", <<x.k, Arith("BigPow", <<2, x.q>>)>>)
                  ELSE x.k
        Den(x) == IF x.q >= 0 THEN <<1>> ELSE Arith("BigPow", <<2, -x.q>>)
        \* f * pow when up, f / pow otherwise
        Scaled(up, pow) ==
            Arith("RoundToF64",
                  <<Arith("BigMul", <<Num(f), IF up THEN Num(pow) ELSE Den(pow)>>),
                    Arith("BigMul", <<Den(f), IF up THEN Den(pow) ELSE Num(pow)>>)>>)
        WithinTable(n) == IF n > F64.pow10 THEN F64.pow10 ELSE n
        \* the result, or the next turn of the loop, given f times or by
        \* the entry of POW10 nearest to the exponent
        Loop(scaled) ==
            IF -F64.pow10 <= exponent /\ exponent <= F64.pow10 THEN scaled
            ELSE IF f.k = <<>> THEN f
            ELSE IF exponent >= 0 THEN [inf |-> TRUE, k |-> <<>>, q |-> 0]
            ELSE f64_from_parts(scaled, exponent + F64.pow10)
    IN  Loop(Scaled(exponent >= 0,
                    Arith("RoundToF64",
                          <<Arith("BigPow", <<10, WithinTable(IF exponent < 0 THEN -exponent
                                                              ELSE exponent)>>),
                            <<1>>>>)))

\* the f64 read from the digits int before the point, the digits frac after
\* it and the exponent ex (the decimal int.frac * 10^ex), as the decimal it
\* prints as, of class out_of_range when it is beyond f64.  With the feature
\* float_roundtrip it is the f64 nearest to the decimal.  Without it the
\* significand is a u64: parse_integer takes the digits of int up to the
\* last that keeps it within u64 and parse_long_integer only counts the
\* others, parse_decimal then takes the digits of frac up to the last that
\* keeps it within u64 and parse_decimal_overflow leaves the others out;
\* the significand is converted to f64 and scaled by f64_from_parts, the
\* exponent an i32 that saturates.  Either way a decimal of 10^400 and more
\* is out of range and one below 10^-400 is 0, and a significand below
\* 10^15 with an exponent of at most 22 up or down is exact and prints as
\* it was read.
DecimalToF64(neg, int, frac, ex, float_roundtrip) ==
    LET \* i32::saturating_add
        Saturating(x, y) ==
            IF y > 0 /\ x > 2147483647 - y THEN 2147483647
            ELSE IF y < 0 /\ x < (-2147483647 - 1) - y THEN -2147483647 - 1
            ELSE x + y
        \* the exponent of the last digit of frac
        e == Saturating(ex, -Len(frac))
        Fits(xs) == BigCmp(Arith("BigOfDigits", <<xs>>), Beyond.u64) < 0
        \* how many of the first digits of xs the significand takes after
        \* the digits before
        Taken(before, xs) ==
            CHOOSE n \in 0..Len(xs) :
                /\ Fits(before \o SubSeq(xs, 1, n))
                /\ n = Len(xs) \/ ~Fits(before \o SubSeq(xs, 1, n + 1))
        \* the f64 of the first ni digits of int and the first nf of frac,
        \* scaled
        Scaled(ni, nf) ==
            Arith("f64_from_parts",
                  <<Arith("RoundToF64",
                          <<Arith("BigOfDigits", <<SubSeq(int, 1, ni) \o SubSeq(frac, 1, nf)>>),
                            <<1>>>>),
                    Saturating(ex, Len(int) - ni - nf)>>)
        Truncated(ni) == Scaled(ni, Taken(SubSeq(int, 1, ni), frac))
        Signed(dec) == Finite(neg, dec.m, dec.e)
        AsDecimal(x) ==
            IF x.inf THEN [cls |-> "out_of_range", neg |-> neg, m |-> <<>>, e |-> 0]
            ELSE IF x.k = <<>> THEN Finite(neg, <<>>, 0)
            ELSE Signed(Arith("ShortestDecimal", <<x>>))
        RECURSIVE TrailingZeros(_)
        TrailingZeros(sig) ==
            IF sig # <<>> /\ sig[Len(sig)] = 48
            THEN 1 + TrailingZeros(SubSeq(sig, 1, Len(sig) - 1)) ELSE 0
        Exact(sig, tz) ==
            Finite(neg, Arith("BigOfDigits", <<SubSeq(sig, 1, Len(sig) - tz)>>), e + tz)
        Read(sig) ==
            IF sig = <<>> \/ e <= -400 - Len(sig) THEN Finite(neg, <<>>, 0)
            ELSE IF e > 400 - Len(sig)
            THEN [cls |-> "out_of_range", neg |-> neg, m |-> <<>>, e |-> 0]
            ELSE IF Len(sig) <= 15 /\ -22 <= e /\ e <= 22 THEN Exact(sig, TrailingZeros(sig))
            ELSE AsDecimal(IF float_roundtrip
                           THEN Arith("RoundToF64",
                                      <<IF e >= 0
                                        THEN Arith("BigMul", <<Arith("BigOfDigits", <<sig>>),
                                                               Arith("BigPow", <<10, e>>)>>)
                                        ELSE Arith("BigOfDigits", <<sig>>),
                                        IF e >= 0 THEN <<1>> ELSE Arith("BigPow", <<10, -e>>)>>)
                           ELSE Truncated(Taken(<<>>, int)))
    IN  Read(StripLeadingZeros(int \o frac))

\* the operator of the name op applied to its arguments x
Arith(op, x) ==
    CASE op = "PlusTimes" /\ Len(x) = 3 -> PlusTimes(x[1], x[2], x[3])
      [] op = "BigMul" /\ Len(x) = 2 -> BigMul(x[1], x[2])
      [] op = "BigPow" /\ Len(x) = 2 -> BigPow(x[1], x[2])
      [] op = "BigDivMod" /\ Len(x) = 2 -> BigDivMod(x[1], x[2])
      [] op = "BigOfDigits" /\ Len(x) = 1 -> BigOfDigits(x[1])
      [] op = "LogFloor" /\ Len(x) = 3 -> LogFloor(x[1], x[2], x[3])
      [] op = "RoundToF64" /\ Len(x) = 2 -> RoundToF64(x[1], x[2])
      [] op = "ShortestDecimal" /\ Len(x) = 1 -> ShortestDecimal(x[1])
      [] op = "f64_from_parts" /\ Len(x) = 2 -> f64_from_parts(x[1], x[2])
      [] op = "DecimalToF64" /\ Len(x) = 5 -> DecimalToF64(x[1], x[2], x[3], x[4], x[5])

RECURSIVE ParseStr(_, _, _)

\* the escape \uXXXX at position i: a trailing surrogate alone is an error,
\* a leading one must be followed by the escape of a trailing one, and the
\* pair is one character beyond U+FFFF
UnicodeEscape(s, i, acc) ==
    LET \* the value of the hex digit c, -1 when it is none
        HexVal(c) ==
            IF IsDigit(c) THEN c - 48
            ELSE IF c >= 97 /\ c <= 102 THEN c - 87
            ELSE IF c >= 65 /\ c <= 70 THEN c - 55 ELSE -1
        \* four hex digits from position j on as a number, -1 when one is none
        Hex4(j) ==
            IF \A k \in 0..3 : HexVal(At(s, j + k)) >= 0
            THEN HexVal(At(s, j)) * 4096 + HexVal(At(s, j + 1)) * 256
                 + HexVal(At(s, j + 2)) * 16 + HexVal(At(s, j + 3))
            ELSE -1
    IN  IF Hex4(i + 2) < 0 THEN NoJson
        ELSE IF Hex4(i + 2) >= 56320 /\ Hex4(i + 2) <= 57343 THEN NoJson
        ELSE IF Hex4(i + 2) < 55296 \/ Hex4(i + 2) > 56319
        THEN ParseStr(s, i + 6, Append(acc, Hex4(i + 2)))
        ELSE IF At(s, i + 6) # 92 \/ At(s, i + 7) # 117 THEN NoJson
        ELSE IF Hex4(i + 8) < 56320 \/ Hex4(i + 8) > 57343 THEN NoJson
        ELSE ParseStr(s, i + 12,
                 Append(acc, 65536 + (Hex4(i + 2) - 55296) * 1024 + (Hex4(i + 8) - 56320)))

\* the rest of a string after its opening quote
ParseStr(s, i, acc) ==
    LET c == At(s, i) IN
    IF c = -1 \/ (c >= 0 /\ c < 32) THEN NoJson
    ELSE IF c = 34 THEN [ok |-> TRUE, v |-> acc, i |-> i + 1]
    ELSE IF c # 92 THEN ParseStr(s, i + 1, Append(acc, c))
    ELSE LET e == At(s, i + 1) IN
         IF e \in {34, 92, 47} THEN ParseStr(s, i + 2, Append(acc, e))
         ELSE IF e = 110 THEN ParseStr(s, i + 2, Append(acc, 10))
         ELSE IF e = 116 THEN ParseStr(s, i + 2, Append(acc, 9))
         ELSE IF e = 114 THEN ParseStr(s, i + 2, Append(acc, 13))
         ELSE IF e = 98 THEN ParseStr(s, i + 2, Append(acc, 8))
         ELSE IF e = 102 THEN ParseStr(s, i + 2, Append(acc, 12))
         ELSE IF e = 117 THEN UnicodeEscape(s, i, acc)
         ELSE NoJson

\* a number: an integer without fraction and exponent, a float otherwise;
\* there is only one leading 0
ParseNumber(de, s, i) ==
    LET \* first position from j on that holds no digit
        DigitsEnd(j) ==
            CHOOSE n \in j..(Len(s) + 1) :
                ~IsDigit(At(s, n)) /\ \A k \in j..(n - 1) : IsDigit(At(s, k))
        RECURSIVE DigitsVal(_)
        DigitsVal(xs) ==
            IF xs = <<>> THEN 0
            ELSE DigitsVal(SubSeq(xs, 1, Len(xs) - 1)) * 10 + (xs[Len(xs)] - 48)
        neg == At(s, i) = 45
        a   == IF neg THEN i + 1 ELSE i
        b   == IF At(s, a) = 48 THEN a + 1 ELSE DigitsEnd(a)
        hasFrac == At(s, b) = 46
        c   == IF hasFrac THEN DigitsEnd(b + 1) ELSE b
        hasExp == At(s, c) \in {101, 69}
        sgn == IF hasExp /\ At(s, c + 1) \in {43, 45} THEN c + 2 ELSE c + 1
        en  == IF hasExp THEN DigitsEnd(sgn) ELSE c
        \* the digits of the exponent from the first that is not 0 on
        exp == StripLeadingZeros(SubSeq(s, sgn, en - 1))
        \* exp * 10 + digit would pass i32::MAX at one of them
        Overflow(first) ==
            \/ Len(exp) > 10
            \/ Len(exp) = 10 /\ (first > 214748364 \/ (first = 214748364 /\ exp[10] > 55))
        ex  == IF ~hasExp THEN 0
               ELSE IF At(s, c + 1) = 45 THEN -DigitsVal(exp) ELSE DigitsVal(exp)
        int  == SubSeq(s, a, b - 1)
        frac == IF hasFrac THEN SubSeq(s, b + 1, c - 1) ELSE <<>>
        \* a float read up to position j (exclusive): an error when out of range
        FloatResult(f, j) ==
            IF f.cls = "out_of_range" THEN NoJson
            ELSE [ok |-> TRUE, i |-> j, v |-> JNumber("Float", I64(0), f)]
        \* an integer of magnitude mag and digits ds (no leading zero) read up
        \* to position j (exclusive): a u64, or an i64 when negative, when it
        \* fits, a float otherwise and for -0
        IntegerResult(mag, ds, j) ==
            IF neg /\ mag = <<>> THEN FloatResult(Finite(TRUE, <<>>, 0), j)
            ELSE IF \/ neg /\ BigCmp(mag, Beyond.i64) > 0
                    \/ ~neg /\ BigCmp(mag, Beyond.u64) >= 0
            THEN FloatResult(Arith("DecimalToF64", <<neg, ds, <<>>, 0, de.float_roundtrip>>),
                             j)
            ELSE [ok |-> TRUE, i |-> j,
                  v |-> JNumber(IF neg THEN "NegInt" ELSE "PosInt",
                                [neg |-> neg, mag |-> mag], FZero)]
    IN  \* no digit, a digit after a leading 0, no digit after the point or in
        \* the exponent: `invalid number`
        IF \/ b = a
           \/ At(s, a) = 48 /\ IsDigit(At(s, b))
           \/ hasFrac /\ c = b + 1
           \/ hasExp /\ en = sgn
        THEN NoJson
        ELSE IF ~hasFrac /\ ~hasExp THEN IntegerResult(BigOfDigits(int), int, b)
        \* parse_exponent_overflow: an error unless the exponent is negative
        \* or every digit of the significand is 0, and then 0
        ELSE IF hasExp /\ Overflow(DigitsVal(SubSeq(exp, 1, 9)))
        THEN IF At(s, c + 1) # 45 /\ StripLeadingZeros(int \o frac) # <<>> THEN NoJson
             ELSE FloatResult(Finite(neg, <<>>, 0), en)
        ELSE FloatResult(Arith("DecimalToF64", <<neg, int, frac, ex, de.float_roundtrip>>),
                         en)

\* serde_json's Map::insert (preserve_order): a present key keeps its place
Map_insert(o, k, v) ==
    IF IndexOf(o, k) = 0 THEN Append(o, <<k, v>>)
    ELSE [o EXCEPT ![IndexOf(o, k)] = <<k, v>>]

RECURSIVE ParseValue(_, _, _)
RECURSIVE ParseElems(_, _, _, _)
RECURSIVE ParseEntries(_, _, _, _)

\* a value that starts at position i, read by the deserializer de; an array
\* or object takes one from remaining_depth and is refused at 0
\* (`recursion limit exceeded`)
ParseValue(de, s, i) ==
    LET c == At(s, i)
        \* the value v when word stands at position i
        Literal(word, v) ==
            IF i + Len(word) - 1 <= Len(s) /\ SubSeq(s, i, i + Len(word) - 1) = word
            THEN [ok |-> TRUE, v |-> v, i |-> i + Len(word)]
            ELSE NoJson
    IN
    CASE c = 110 -> Literal(<<110, 117, 108, 108>>, JNull)
      [] c = 116 -> Literal(<<116, 114, 117, 101>>, [t |-> "Bool", b |-> TRUE])
      [] c = 102 -> Literal(<<102, 97, 108, 115, 101>>, [t |-> "Bool", b |-> FALSE])
      [] c = 34  -> LET r == ParseStr(s, i + 1, <<>>) IN
                    IF r.ok THEN [ok |-> TRUE, v |-> [t |-> "String", s |-> r.v], i |-> r.i]
                    ELSE NoJson
      [] c = 91  -> LET j == SkipWs(s, i + 1) IN
                    IF de.remaining_depth = 1 THEN NoJson
                    ELSE IF At(s, j) = 93
                    THEN [ok |-> TRUE, v |-> [t |-> "Array", a |-> <<>>], i |-> j + 1]
                    ELSE ParseElems([de EXCEPT !.remaining_depth = @ - 1], s, j, <<>>)
      [] c = 123 -> LET j == SkipWs(s, i + 1) IN
                    IF de.remaining_depth = 1 THEN NoJson
                    ELSE IF At(s, j) = 125
                    THEN [ok |-> TRUE, v |-> [t |-> "Object", o |-> <<>>], i |-> j + 1]
                    ELSE ParseEntries([de EXCEPT !.remaining_depth = @ - 1], s, j, <<>>)
      [] c = 45 \/ IsDigit(c) -> ParseNumber(de, s, i)
      [] OTHER   -> NoJson

\* the elements of an array from position i on, up to its closing bracket
ParseElems(de, s, i, acc) ==
    LET r == ParseValue(de, s, i) IN
    IF ~r.ok THEN NoJson
    ELSE LET j == SkipWs(s, r.i) IN
         IF At(s, j) = 93
         THEN [ok |-> TRUE, v |-> [t |-> "Array", a |-> Append(acc, r.v)], i |-> j + 1]
         ELSE IF At(s, j) = 44 THEN ParseElems(de, s, SkipWs(s, j + 1), Append(acc, r.v))
         ELSE NoJson

\* the entries of an object from position i on, up to its closing brace
ParseEntries(de, s, i, acc) ==
    IF At(s, i) # 34 THEN NoJson
    ELSE LET k == ParseStr(s, i + 1, <<>>) IN
    IF ~k.ok THEN NoJson
    ELSE LET c == SkipWs(s, k.i) IN
    IF At(s, c) # 58 THEN NoJson
    ELSE LET r == ParseValue(de, s, SkipWs(s, c + 1)) IN
    IF ~r.ok THEN NoJson
    ELSE LET j == SkipWs(s, r.i) IN
         IF At(s, j) = 125
         THEN [ok |-> TRUE, v |-> [t |-> "Object", o |-> Map_insert(acc, k.v, r.v)], i |-> j + 1]
         ELSE IF At(s, j) = 44
         THEN ParseEntries(de, s, SkipWs(s, j + 1), Map_insert(acc, k.v, r.v))
         ELSE NoJson

\* serde_json::from_str: one value and nothing but white space after it,
\* read by a new deserializer (remaining_depth 128) of a serde_json built
\* with or without the feature float_roundtrip
from_str(s, float_roundtrip) ==
    LET r == ParseValue([remaining_depth |-> 128, float_roundtrip |-> float_roundtrip],
                        s, SkipWs(s, 1)) IN
    IF r.ok /\ SkipWs(s, r.i) = Len(s) + 1 THEN r ELSE NoJson

RECURSIVE ValuesFrom(_)
RECURSIVE EntriesFrom(_, _)
RECURSIVE Value_from(_)

\* From<&JsonValue> for Value: a Number whose text (Number::to_string) has
\* a '.' is as_f64(), any other as_i64(), which is None for a Float and for
\* an integer above i64::MAX, and unwrap panics
Value_from(v) ==
    CASE v.t = "Null"   -> [status |-> "Ok", val |-> VNull]
      [] v.t = "Bool"   -> [status |-> "Ok", val |-> VBoolean(v.b)]
      [] v.t = "Number" ->
            IF \E i \in 1..Len(IF v.n.k = "Float" THEN FloatText(v.n.f) ELSE IntText(v.n.i)) :
                  (IF v.n.k = "Float" THEN FloatText(v.n.f) ELSE IntText(v.n.i))[i] = 46
            THEN [status |-> "Ok",
                  val |-> VNumber(NumberFromF64(
                              IF v.n.k = "Float" THEN v.n.f
                              ELSE Arith("DecimalToF64",
                                         <<v.n.i.neg, BigText(v.n.i.mag), <<>>, 0, TRUE>>)))]
            ELSE IF v.n.k = "Float"
                    \/ (v.n.k = "PosInt" /\ BigCmp(v.n.i.mag, Beyond.i64) >= 0)
            THEN Panic
            ELSE [status |-> "Ok", val |-> VNumber(NumberFromI64(v.n.i))]
      [] v.t = "String" -> [status |-> "Ok", val |-> VString(v.s)]
      [] v.t = "Array"  -> LET r == ValuesFrom(v.a) IN
                           IF r.status # "Ok" THEN Panic
                           ELSE [status |-> "Ok", val |-> VArray(r.val)]
      [] v.t = "Object" -> LET r == EntriesFrom(v.o, <<>>) IN
                           IF r.status # "Ok" THEN Panic
                           ELSE [status |-> "Ok", val |-> VObject(r.val)]

ValuesFrom(a) ==
    IF a = <<>> THEN [status |-> "Ok", val |-> <<>>]
    ELSE LET h == Value_from(Head(a)) IN
         IF h.status # "Ok" THEN Panic
         ELSE LET r == ValuesFrom(Tail(a)) IN
              IF r.status # "Ok" THEN Panic
              ELSE [status |-> "Ok", val |-> <<h.val>> \o r.val]

EntriesFrom(o, m) ==
    IF o = <<>> THEN [status |-> "Ok", val |-> m]
    ELSE LET h == Value_from(Head(o)[2]) IN
         IF h.status # "Ok" THEN Panic
         ELSE EntriesFrom(Tail(o), Object_insert(m, Head(o)[1], h.val))

\* ------------------------------------------- state machine: groups

NoRet == [op |-> "none"]

Init ==
    /\ pc = "built"
    /\ group \in Groups
    /\ \E n \in 0..MaxItems, variant \in 0..1, seed \in 0..MaxSeed :
          items = MakeItems(group, n, variant, seed)
    /\ cold_code = "CtB64"
    /\ counter = [code |-> GroupCode(group), count |-> Len(items)]
    /\ bytes = <<>>
    /\ tail = <<>>
    /\ good = Len(items)
    /\ ret = NoRet
    /\ d = VNull
    /\ inserted = <<>>

Keep == UNCHANGED <<group, items, cold_code, counter, bytes, tail, good, d, inserted>>

\* GroupItem::qb64 of one item of the constructed group
Qb64 ==
    /\ pc = "built"
    /\ \E i \in 1..Len(items) :
          ret' = [op |-> "qb64", i |-> i, r |-> Item_qb64(group, items[i])]
    /\ pc' = "rendered"
    /\ Keep

\* GroupItem::qb64b of one item of the constructed group
Qb64b ==
    /\ pc = "built"
    /\ \E i \in 1..Len(items) :
          ret' = [op |-> "qb64b", i |-> i, r |-> Item_qb64b(group, items[i])]
    /\ pc' = "rendered"
    /\ Keep

\* GroupItem::qb2 of one item of the constructed group
Qb2 ==
    /\ pc = "built"
    /\ \E i \in 1..Len(items) :
          ret' = [op |-> "qb2", i |-> i, r |-> Item_qb2(group, items[i])]
    /\ pc' = "rendered"
    /\ Keep

\* the renderings of the items joined, a panic if one of them panicked
JoinRendered(rs) ==
    IF \E i \in 1..Len(rs) : rs[i].status # "Ok"
    THEN [status |-> "Panic", out |-> <<>>]
    ELSE [status |-> "Ok", out |-> Flatten([i \in 1..Len(rs) |-> rs[i].out])]

\* every item of a group rendered to text bytes, in order
RenderAll(g, its) == JoinRendered([i \in 1..Len(its) |-> Item_qb64b(g, its[i])])

\* the second rendering, of the group parsed from the first
Rerendered(first, second) ==
    [status |-> second.status, first |-> first, second |-> second.out]

Reparsed(g, first, p) ==
    IF ~p.ok THEN [status |-> "Err", first |-> first, second |-> <<>>]
    ELSE Rerendered(first, RenderAll(g, p.value))

Rendered(g, n, first) ==
    IF first.status # "Ok"
    THEN [status |-> first.status, first |-> <<>>, second |-> <<>>]
    ELSE Reparsed(g, first.out,
             from_stream_bytes(g, first.out, [code |-> GroupCode(g), count |-> n], "CtB64"))

\* render to text, parse in the text domain, render again
RoundTrip(g, its) == Rendered(g, Len(its), RenderAll(g, its))

RoundTripText ==
    /\ pc = "built"
    /\ ret' = [op |-> "roundtrip", r |-> RoundTrip(group, items)]
    /\ pc' = "reparsed"
    /\ Keep

\* a caller's stream for the constructed group: the items on the wire in the
\* domain of a cold code, whole or with one primitive broken, then a tail,
\* and the Counter that announces it
Stream ==
    /\ pc = "built"
    /\ \E cold \in ColdCodes, n \in 0..(MaxItems + 1) :
          /\ cold_code' = cold
          /\ counter' = [code |-> GroupCode(group), count |-> n]
          /\ \/ \E tl \in Tails(cold) :
                   /\ bytes' = WireAll(group, items, cold) \o tl
                   /\ tail' = tl
                   /\ good' = Len(items)
             \/ \E dk \in DamageKinds(group, cold), j \in 1..Len(items),
                   m \in 1..Len(ItemKinds(group)) :
                   /\ bytes' = BrokenStream(group, items, cold, dk, j, m)
                   /\ tail' = <<>>
                   /\ good' = j - 1
    /\ pc' = "stream"
    /\ UNCHANGED <<group, items, ret, d, inserted>>

FromStreamBytes ==
    /\ pc = "stream"
    /\ ret' = [op |-> "from_stream_bytes",
               r |-> from_stream_bytes(group, bytes, counter, cold_code)]
    /\ pc' = "parsed"
    /\ Keep

\* the stream with its Counter in front, parsed from the header on
ParseGroup ==
    /\ pc = "stream"
    /\ LET hdr == IF IsBinary(cold_code) THEN Counter_qb2(counter)
                  ELSE Counter_qb64b(counter) IN
       ret' = [op |-> "parse_group", input |-> hdr \o bytes,
               r |-> parse_group(hdr \o bytes, cold_code)]
    /\ pc' = "group_parsed"
    /\ Keep

Next == Qb64 \/ Qb64b \/ Qb2 \/ RoundTripText \/ Stream \/ FromStreamBytes \/ ParseGroup

Spec == Init /\ [][Next]_vars

\* --------------------------------------------- properties: groups

\* the stream holds the constructed items unbroken
Intact == good = Len(items)

\* bytes the first n constructed items occupy on the wire
WireLen(n) == Len(WireAll(group, SubSeq(items, 1, n), cold_code))

\* C1: when the stream is N well-formed items followed by any trailing bytes
\* and the Counter's count is N, from_stream_bytes (in the text or binary
\* domain the stream is written in) succeeds with exactly N items and a
\* remainder equal to the trailing bytes.
C1_CountFidelity ==
    (pc = "parsed" /\ ParserFor(cold_code) /\ Intact /\ counter.count = Len(items))
    => /\ ret.r.ok
       /\ Len(ret.r.value) = counter.count
       /\ ret.r.rest = tail

C1_Witness ==
    /\ pc = "parsed" /\ Intact /\ counter.count = Len(items)
    /\ group = "ControllerIdxSigs" /\ cold_code = "CtB64"
    /\ Len(items) = 2 /\ tail # <<>>
    /\ ret.r.ok /\ Len(ret.r.value) = 2 /\ ret.r.rest = tail

\* C2: a group parse is all-or-nothing: a stream that holds fewer
\* well-formed items than the Counter's count (truncated mid-item, or with a
\* primitive that does not decode) yields an error, and no successful parse
\* ever returns fewer items than the count.
C2_AllOrNothing ==
    pc = "parsed"
    => /\ ret.r.ok => Len(ret.r.value) = counter.count
       /\ good < counter.count => ~ret.r.ok

C2_Witness ==
    /\ pc = "parsed" /\ group = "SealSourceTriples" /\ ParserFor(cold_code)
    /\ Len(items) = 2 /\ good = 1 /\ counter.count = 2
    /\ ~ret.r.ok

\* C3: SealSourceTriple::qb64b returns the bytes of qb64: the prefixer's text
\* bytes, then the seqner's, then the saider's, full_size() bytes in all.
C3_Qb64bIsQb64 ==
    (pc = "rendered" /\ ret.op = "qb64b" /\ group = "SealSourceTriples")
    => /\ ret.r.status = "Ok"
       /\ ret.r.out = SealSourceTriple_qb64(items[ret.i]).out
       /\ ret.r.out = Primitive_qb64b("prefixer", items[ret.i].prefixer)
                      \o Primitive_qb64b("seqner", items[ret.i].seqner)
                      \o Primitive_qb64b("saider", items[ret.i].saider)
       /\ Len(ret.r.out) = SealSourceTriple_full_size(items[ret.i])

\* C4: SealSourceTriple::qb2 returns prefixer.qb2(), seqner.qb2() and
\* saider.qb2() one after another, full_size() / 4 * 3 bytes in all.
C4_Qb2IsConcatenation ==
    (pc = "rendered" /\ ret.op = "qb2" /\ group = "SealSourceTriples")
    => /\ ret.r.status = "Ok"
       /\ ret.r.out = Primitive_qb2("prefixer", items[ret.i].prefixer)
                      \o Primitive_qb2("seqner", items[ret.i].seqner)
                      \o Primitive_qb2("saider", items[ret.i].saider)
       /\ Len(ret.r.out) = (SealSourceTriple_full_size(items[ret.i]) \div 4) * 3

\* C5: text round trip: the items of a constructed group rendered with qb64b,
\* parsed by from_stream_bytes in the text domain with count = number of
\* items, and rendered again give the original bytes.
C5_TextRoundTrip ==
    pc = "reparsed"
    => /\ ret.r.status = "Ok"
       /\ ret.r.second = ret.r.first

\* C6: SealSourceTriples::from_stream_bytes reads each item as prefixer,
\* seqner, saider from consecutive bytes and the items one right after the
\* other: when the stream holds at least count whole triples, the parsed
\* triples are the first count triples field by field, and the remainder is
\* everything after the last of them.
C6_TriplesInOrder ==
    (pc = "parsed" /\ group = "SealSourceTriples" /\ ParserFor(cold_code)
        /\ counter.count <= good)
    => /\ ret.r.ok
       /\ ret.r.value = SubSeq(items, 1, counter.count)
       /\ ret.r.rest = SubSeq(bytes, WireLen(counter.count) + 1, Len(bytes))

C6_Witness ==
    /\ pc = "parsed" /\ group = "SealSourceTriples" /\ cold_code = "CtB64"
    /\ counter.count = 2 /\ Len(items) = 2 /\ Intact /\ tail # <<>>
    /\ ret.r.ok
    /\ ret.r.value[2].seqner = items[2].seqner
    /\ ret.r.rest = tail

\* sum of the parsed items' full_size()
SizeSum == SumSeq([i \in 1..Len(ret.r.value) |-> Item_full_size(group, ret.r.value[i])])

\* bytes taken from the framed input
Consumed == Len(ret.input) - Len(ret.r.rest)

\* C7 as stated: in either domain, the items' full_size() summed plus the
\* Counter header width is the number of bytes consumed.
C7_SizeAdditivityEitherDomain ==
    (pc = "group_parsed" /\ ret.r.ok)
    => SizeSum + HeaderWidth(cold_code) = Consumed

\* C7 amended: in the text domain the items' full_size() summed plus the
\* Counter header width (4) is the number of bytes consumed; in the binary
\* domain, where full_size() still counts text characters, the bytes consumed
\* are that text total converted by the 4-to-3 ratio.
C7_SizeAdditivity ==
    (pc = "group_parsed" /\ ret.r.ok)
    => IF IsText(cold_code)
       THEN SizeSum + CounterFullSize = Consumed
       ELSE ((SizeSum + CounterFullSize) \div 4) * 3 = Consumed

C7_Witness ==
    /\ pc = "group_parsed" /\ ret.r.ok
    /\ group = "SealSourceTriples" /\ cold_code = "CtOpB2"
    /\ Len(ret.r.value) = 2 /\ ret.r.rest # <<>>
    /\ SizeSum = 224 /\ Consumed = 171

\* --------------------------------------------- state machine: data

MaxDepth == 2

MaxLen == 2

\* keys of the constructed objects: a and b"
Keys == {<<97>>, <<98, 34>>}

\* scalar values of the constructed data: null, booleans, i64 and f64
\* numbers (1.666, 100.0, 0.00025, 1e16, -1.5e20, 0.0, NaN) and strings
\* ("string", "", one with a quote, a backslash, a line feed, a carriage
\* return and a control character)
Scalars ==
    {VNull, VBoolean(TRUE), VBoolean(FALSE),
     VNumber(NumberFromI64(I64(2))), VNumber(NumberFromI64(I64(-1234567890))),
     VNumber(NumberFromI64(I64(0))),
     VNumber(NumberFromF64(Finite(FALSE, Big(1666), -3))),
     VNumber(NumberFromF64(Finite(FALSE, Big(1), 2))),
     VNumber(NumberFromF64(Finite(FALSE, Big(25), -5))),
     VNumber(NumberFromF64(Finite(FALSE, Big(1), 16))),
     VNumber(NumberFromF64(Finite(TRUE, Big(15), 19))),
     VNumber(NumberFromF64(FZero)),
     VNumber(NumberFromF64(NaN)),
     VString(<<115, 116, 114, 105, 110, 103>>), VString(<<>>),
     VString(<<97, 34, 92, 10, 13, 1>>)}

\* values added to a container that already holds one
Fillers == {VNull, VNumber(NumberFromI64(I64(2))), VObject(<<>>)}

RECURSIVE Depth(_)
RECURSIVE MaxDepthOf(_)
MaxDepthOf(vs) ==
    IF vs = <<>> THEN 0
    ELSE LET h == Depth(Head(vs))
             r == MaxDepthOf(Tail(vs)) IN IF h > r THEN h ELSE r

Depth(v) ==
    CASE v.t = "Array"  -> 1 + MaxDepthOf(v.a)
      [] v.t = "Object" -> 1 + MaxDepthOf([i \in 1..Len(v.o) |-> v.o[i][2]])
      [] OTHER          -> 0

GroupsIdle ==
    /\ group = "ControllerIdxSigs"
    /\ items = <<>>
    /\ cold_code = "CtB64"
    /\ counter = [code |-> "-A", count |-> 0]
    /\ bytes = <<>>
    /\ tail = <<>>
    /\ good = 0

InitData ==
    /\ pc = "value"
    /\ d \in Scalars \cup {VArray(<<>>), VObject(<<>>)}
    /\ inserted = <<>>
    /\ ret = NoRet
    /\ GroupsIdle

KeepGroups == UNCHANGED <<group, items, cold_code, counter, bytes, tail, good>>

\* data!([ d ]): the value becomes the one element of a new array
WrapArray ==
    /\ pc = "value"
    /\ Depth(d) < MaxDepth
    /\ d' = VArray(<<d>>)
    /\ inserted' = <<>>
    /\ UNCHANGED <<pc, ret>>
    /\ KeepGroups

\* data!([ ..., v ]): one more element
Push ==
    /\ pc = "value"
    /\ d.t = "Array"
    /\ Len(d.a) < MaxLen
    /\ \E v \in Fillers : d' = VArray(Append(d.a, v))
    /\ UNCHANGED <<pc, ret, inserted>>
    /\ KeepGroups

\* data!({ k: d }): the value becomes the one entry of a new object
WrapObject ==
    /\ pc = "value"
    /\ Depth(d) < MaxDepth
    /\ \E k \in Keys :
          /\ d' = VObject(Object_insert(<<>>, k, d))
          /\ inserted' = <<k>>
    /\ UNCHANGED <<pc, ret>>
    /\ KeepGroups

\* data!({ ..., k: v }): object.insert(k, v) of one more entry
Insert ==
    /\ pc = "value"
    /\ d.t = "Object"
    /\ Len(d.o) < MaxLen
    /\ \E k \in Keys, v \in Fillers :
          /\ d' = VObject(Object_insert(d.o, k, v))
          /\ inserted' = IF \E i \in 1..Len(inserted) : inserted[i] = k
                         THEN inserted ELSE Append(inserted, k)
    /\ UNCHANGED <<pc, ret>>
    /\ KeepGroups

\* From<&HashMap<String, Value>> for Value: the entries of h inserted into
\* a new IndexMap one by one in the order the HashMap yields them, `order`
RECURSIVE Value_from_hash_map(_, _, _)
Value_from_hash_map(h, order, map) ==
    IF order = <<>> THEN VObject(map)
    ELSE Value_from_hash_map(h, Tail(order),
                             Object_insert(map, Head(order), h[Head(order)]))

\* Value::from(&h) for a HashMap h that holds d under one key and values of
\* Fillers under the others; a HashMap yields its entries in any order
FromHashMap ==
    /\ pc = "value"
    /\ Depth(d) < MaxDepth
    /\ \E ks \in (SUBSET Keys) \ {{}} :
       \E k0 \in ks, fill \in [ks -> Fillers], order \in [1..Cardinality(ks) -> ks] :
          /\ Cardinality(ks) <= MaxLen
          /\ fill[k0] = VNull
          /\ \A i, j \in 1..Cardinality(ks) : i # j => order[i] # order[j]
          /\ d' = Value_from_hash_map([k \in ks |-> IF k = k0 THEN d ELSE fill[k]],
                                      order, <<>>)
          /\ inserted' = order
    /\ UNCHANGED <<pc, ret>>
    /\ KeepGroups

ToJson ==
    /\ pc = "value"
    /\ ret' = [op |-> "to_json", status |-> "Ok", out |-> to_json(d)]
    /\ pc' = "json"
    /\ UNCHANGED <<d, inserted>>
    /\ KeepGroups

\* <Value as Data>::to_cesr: unimplemented!()
to_cesr(v) == [status |-> "Panic", out |-> <<>>]

\* <Value as Data>::to_cesrb: unimplemented!()
to_cesrb(v) == [status |-> "Panic", out |-> <<>>]

ToCesr ==
    /\ pc = "value"
    /\ ret' = [op |-> "to_cesr", r |-> to_cesr(d)]
    /\ pc' = "cesr"
    /\ UNCHANGED <<d, inserted>>
    /\ KeepGroups

ToCesrb ==
    /\ pc = "value"
    /\ ret' = [op |-> "to_cesrb", r |-> to_cesrb(d)]
    /\ pc' = "cesr"
    /\ UNCHANGED <<d, inserted>>
    /\ KeepGroups

\* d2 = Value::from(&serde_json::from_str(&d.to_json())), a text that
\* from_str refuses being an Err
JsonRoundTrip(v, float_roundtrip) ==
    LET text == to_json(v)
        j    == from_str(text, float_roundtrip) IN
    IF ~j.ok THEN [status |-> "Err", json |-> text, json2 |-> <<>>]
    ELSE LET d2 == Value_from(j.v) IN
         IF d2.status # "Ok" THEN [status |-> "Panic", json |-> text, json2 |-> <<>>]
         ELSE [status |-> "Ok", json |-> text, json2 |-> to_json(d2.val)]

SerdeInterop ==
    /\ pc = "value"
    /\ \E float_roundtrip \in BOOLEAN :
          ret' = [op |-> "interop", r |-> JsonRoundTrip(d, float_roundtrip)]
    /\ pc' = "interop"
    /\ UNCHANGED <<d, inserted>>
    /\ KeepGroups

\* d[i] and d[key] for the i-th key inserted
IndexBoth ==
    /\ pc = "value"
    /\ d.t = "Object"
    /\ \E i \in 0..(Len(inserted) - 1) :
          ret' = [op |-> "index", i |-> i, key |-> inserted[i + 1],
                  by_pos |-> Index_usize(d, i),
                  by_key |-> Index_str(d, inserted[i + 1])]
    /\ pc' = "indexed"
    /\ UNCHANGED <<d, inserted>>
    /\ KeepGroups

\* values stored by an assignment: null, 2, {} and
\* {"something more complex": {"key": 987654321}} with the keys a and b"
Assigned ==
    Fillers \cup
    {VObject(<<<< <<97>>, VObject(<<<< <<98, 34>>, VNumber(NumberFromI64(I64(987654321))) >>>>) >>>>)}

\* the state an assignment leaves: the value after the store (the value
\* before it when the index panicked), the value before kept for comparison
Store(op, at, new, r) ==
    /\ d' = r.val
    /\ ret' = [op |-> op, at |-> at, new |-> new, before |-> d, status |-> r.status]
    /\ pc' = "assigned"
    /\ UNCHANGED inserted
    /\ KeepGroups

\* d[key] = new
AssignKey ==
    /\ pc = "value"
    /\ \E k \in Keys, new \in Assigned :
          Store("assign_key", k, new, Index_mut_str(d, k, new))

\* d[i] = new
AssignPos ==
    /\ pc = "value"
    /\ \E i \in 0..MaxLen, new \in Assigned :
          Store("assign_pos", i, new, Index_mut_usize(d, i, new))

NextData ==
    WrapArray \/ Push \/ WrapObject \/ Insert \/ ToJson \/ ToCesr \/ ToCesrb
    \/ SerdeInterop \/ IndexBoth \/ AssignKey \/ AssignPos \/ FromHashMap

SpecData == InitData /\ [][NextData]_vars

\* ------------------------------------------------ properties: data

\* C8 as stated: to_cesr and to_cesrb return an Err value and do not abort.
C8_CesrIsAnError ==
    pc = "cesr" => ret.r.status = "Err"

\* C9: d.to_json() parsed by serde_json and converted back with Value::from
\* gives a value whose to_json() is the same text.
C9_JsonRoundTrip ==
    pc = "interop" => ret.r.status = "Ok" /\ ret.r.json2 = ret.r.json

\* the text to_json gives for the entries of keys ks, in that order, each
\* value the one indexing by position finds
EntriesText(v, ks) ==
    <<123>>
    \o Join([i \in 1..Len(ks) |->
                StringText(ks[i]) \o <<58>> \o to_json(Index_usize(v, i - 1).val)], <<44>>)
    \o <<125>>

\* C10: for an object built from n distinct keys, index i (0 <= i < n) is
\* the value of the i-th key inserted and equals indexing by that key, and
\* to_json writes the entries in insertion order.
C10_IndexByPositionOrKey ==
    /\ (pc = "indexed")
       => /\ ret.by_pos.status = "Ok"
          /\ ret.by_key = ret.by_pos
          /\ d.o[ret.i + 1][1] = ret.key
    /\ (pc = "json" /\ d.t = "Object")
       => /\ Len(d.o) = Len(inserted)
          /\ ret.out = EntriesText(d, inserted)

C10_Witness ==
    /\ pc = "indexed" /\ Len(inserted) = 2 /\ ret.i = 1
    /\ ret.by_pos.status = "Ok" /\ ret.by_key = ret.by_pos
    /\ ret.by_pos.val # Index_usize(d, 0).val

\* the text to_json gives for the entries of object o with the value of
\* key k replaced by new: same keys, same order, the other values as in o
ReplacedText(o, k, new) ==
    <<123>>
    \o Join([i \in 1..Len(o) |->
                StringText(o[i][1]) \o <<58>>
                \o to_json(IF o[i][1] = k THEN new ELSE o[i][2])], <<44>>)
    \o <<125>>

\* an assignment d[key] = new to a key the object already held
AssignedPresentKey ==
    /\ pc = "assigned"
    /\ ret.op = "assign_key"
    /\ ret.before.t = "Object"
    /\ IndexOf(ret.before.o, ret.at) # 0

\* C11: d[key] = new for a key already present replaces only that key's
\* value: the key keeps its position and every other entry (key, value,
\* order) is as before, as to_json and indexing by key and by position show.
C11_AssignReplacesOnlyThatValue ==
    AssignedPresentKey
    => /\ ret.status = "Ok"
       /\ d.t = "Object"
       /\ Len(d.o) = Len(ret.before.o)
       /\ to_json(d) = ReplacedText(ret.before.o, ret.at, ret.new)
       /\ Index_str(d, ret.at) = [status |-> "Ok", val |-> ret.new]
       /\ \A i \in 0..(Len(ret.before.o) - 1) :
             /\ d.o[i + 1][1] = ret.before.o[i + 1][1]
             /\ Index_usize(d, i) = Index_str(d, ret.before.o[i + 1][1])
             /\ ret.before.o[i + 1][1] # ret.at
                => Index_usize(d, i) = Index_usize(ret.before, i)

\* the first of two entries takes a new value that differs from its old one
C11_Witness ==
    /\ AssignedPresentKey
    /\ ret.status = "Ok"
    /\ Len(ret.before.o) = 2
    /\ IndexOf(ret.before.o, ret.at) = 1
    /\ ret.new # Index_usize(ret.before, 0).val
    /\ Index_usize(d, 0).val = ret.new
    /\ Index_usize(d, 1).val # ret.new

====
